---- MODULE Spec2Model ----
(***************************************************************************)
(* HeadPoseEstimation (src/src/head_pose_estimation.cpp) as a state        *)
(* machine: the estimator's members, one action per public method, and    *)
(* the pure helper intersection() under a specification of its own.        *)
(*                                                                         *)
(* Representation.                                                         *)
(*  - An image is [cols, rows, scene]: its size and the face regions the   *)
(*    external detector reports on it, in the detector's order.           *)
(*  - dlib::point and cv::Point are integer pairs in pixels.  A cv::Point2f *)
(*    is an integer pair in HALF pixels (value v stands for v/2 pixels),  *)
(*    so that the half-pixel values a float keeps are representable.      *)
(*  - solvePnP, Rodrigues and projectPoints are external numerical         *)
(*    routines: deterministic functions of their arguments, kept as terms. *)
(*  - An out-of-bounds shapes[face_idx] is undefined behaviour: the call   *)
(*    either crashes or goes on with whatever the memory holds (garbage).  *)
(*  - The member current_image is written and read inside update only; it  *)
(*    is not part of the state.  solvePnP is taken to return: an exception *)
(*    of the solver would leave pose and poses without a result.           *)
(***************************************************************************)
EXTENDS Integers, Sequences, FiniteSets, TLC

VARIABLES focalLength, opticalCenterX, opticalCenterY, faces, shapes,
          pixels, call, firstSize, ocWrites, geo

estimator == <<focalLength, opticalCenterX, opticalCenterY, faces, shapes>>
vars == <<focalLength, opticalCenterX, opticalCenterY, faces, shapes,
          pixels, call, firstSize, ocWrites, geo>>

(* ------------------------------ bounds -------------------------------- *)

\* Most faces the detector reports on one image; face regions are 1..MaxFaces.
MaxFaces == 2
\* intersection(): every coordinate is an integer of -GridMax..GridMax grid units.
GridMax == 1

(* ------------------------- program constants -------------------------- *)

\* Number of landmarks per face (the loop bound of update).
NumParts == 68

\* FACIAL_FEATURE indices (head_pose_estimation.hpp).
SELLION == 30
RIGHT_EYE == 36
LEFT_EYE == 45
RIGHT_SIDE == 0
LEFT_SIDE == 16
MENTON == 8
NOSE == 33
MOUTH_CENTER_TOP == 62
MOUTH_CENTER_BOTTOM == 66

\* Constructor arguments tried.
FocalLengths == {500, 1000}

(* ------------------------ external collaborators ---------------------- *)

\* What the detector can report: up to MaxFaces face regions, numbered from
\* the left, in left-to-right or in right-to-left order.
Scenes ==
    {[i \in 1..k |-> i] : k \in 0..MaxFaces}
    \cup {[i \in 1..k |-> MaxFaces + 1 - i] : k \in 0..MaxFaces}

ImageSizes == {<<5, 3>>, <<8, 6>>}

\* The images passed to update: an empty one, and every size with every scene.
Images ==
    {[cols |-> 0, rows |-> 0, scene |-> <<>>]} \cup
    {[cols |-> s[1], rows |-> s[2], scene |-> sc] : s \in ImageSizes, sc \in Scenes}

\* get_frontal_face_detector(): the face regions of the image, in its order.
detector(image) == image.scene

\* shape_predictor: 68 points for one face region of the image.
pose_model(image, face) ==
    [rect |-> face,
     parts |-> [k \in 0..(NumParts - 1) |->
                  <<100 * face + 3 * (k % 7), 50 * face + (k \div 4)>>]]

\* What an out-of-bounds read of shapes may find in memory.
GarbageShapes ==
    {[rect |-> 0, parts |-> [k \in 0..(NumParts - 1) |-> <<0, 0>>]],
     pose_model([cols |-> 0, rows |-> 0, scene |-> <<>>], 1)}

\* cv::solvePnP(..., useExtrinsicGuess = true, ITERATIVE): refines rvec, tvec.
solvePnP(a) == [rvec |-> <<"solvePnP.rvec", a>>, tvec |-> <<"solvePnP.tvec", a>>]

(* ------------------------------ helpers ------------------------------- *)

\* toCv: dlib::point (long, long) to cv::Point (int, int); every coordinate of
\* the model is far inside the range of int, where the narrowing keeps the value.
toCv(p) == <<p[1], p[2]>>

\* cv::Point to cv::Point2f (the return conversion of coordsOf), in half pixels.
ToPoint2f(p) == <<2 * p[1], 2 * p[2]>>

\* Point2f + Point2f.
AddPoint2f(a, b) == <<a[1] + b[1], a[2] + b[2]>>

\* Point2f * 0.5: in half pixels the sum of two whole-pixel points is even,
\* so the product is exact.
HalfPoint2f(a) == <<a[1] \div 2, a[2] \div 2>>

\* shapes[face_idx]: the stored shape, or, out of bounds, what memory holds.
ShapeAt(face_idx, garbage) ==
    IF face_idx < Len(shapes) THEN shapes[face_idx + 1] ELSE garbage

coordsOf(face_idx, feature, garbage) ==
    ToPoint2f(toCv(ShapeAt(face_idx, garbage).parts[feature]))

\* The camera intrinsic matrix built by pose and by drawPose.
projection ==
    [fx |-> focalLength, fy |-> focalLength,
     cx |-> opticalCenterX, cy |-> opticalCenterY]

head_points ==
    <<"P3D_SELLION", "P3D_RIGHT_EYE", "P3D_LEFT_EYE", "P3D_RIGHT_EAR",
      "P3D_LEFT_EAR", "P3D_MENTON", "P3D_NOSE", "P3D_STOMMION">>

\* The midpoint taken in integer pixels (cv::Point arithmetic): truncated.
stomionTruncated(face_idx, garbage) ==
    LET top == toCv(ShapeAt(face_idx, garbage).parts[MOUTH_CENTER_TOP])
        bottom == toCv(ShapeAt(face_idx, garbage).parts[MOUTH_CENTER_BOTTOM])
    IN  ToPoint2f(<<(top[1] + bottom[1]) \div 2, (top[2] + bottom[2]) \div 2>>)

\* (coordsOf(MOUTH_CENTER_TOP) + coordsOf(MOUTH_CENTER_BOTTOM)) * 0.5.
stomion(face_idx, garbage) ==
    HalfPoint2f(AddPoint2f(coordsOf(face_idx, MOUTH_CENTER_TOP, garbage),
                           coordsOf(face_idx, MOUTH_CENTER_BOTTOM, garbage)))

detected_points(face_idx, garbage) ==
    <<coordsOf(face_idx, SELLION, garbage),
      coordsOf(face_idx, RIGHT_EYE, garbage),
      coordsOf(face_idx, LEFT_EYE, garbage),
      coordsOf(face_idx, RIGHT_SIDE, garbage),
      coordsOf(face_idx, LEFT_SIDE, garbage),
      coordsOf(face_idx, MENTON, garbage),
      coordsOf(face_idx, NOSE, garbage),
      stomion(face_idx, garbage)>>

\* A solve warm-started from the solution of the pose call before it.
PreviousSolutionGuess ==
    IF call.op = "pose" /\ call.status = "ok"
    THEN [tvec |-> solvePnP(call.solver).tvec, rvec10 |-> solvePnP(call.solver).rvec]
    ELSE [tvec |-> <<0, 0, 1000>>, rvec10 |-> <<12, 12, -12>>]

\* tvec = (0, 0, 1000) mm; rvec = (1.2, 1.2, -1.2) rad, held in tenths.
InitialGuess == [tvec |-> <<0, 0, 1000>>, rvec10 |-> <<12, 12, -12>>]

\* The arguments pose hands to solvePnP.
SolverArgs(face_idx, garbage) ==
    [objectPoints |-> head_points,
     imagePoints |-> detected_points(face_idx, garbage),
     cameraMatrix |-> projection,
     distCoeffs |-> "noArray",
     guess |-> InitialGuess,
     useExtrinsicGuess |-> TRUE,
     flags |-> "ITERATIVE"]

\* The 4x4 head_pose: Rodrigues(rvec) and tvec / 1000, bottom row 0 0 0 1.
head_pose(a) ==
    [rotation |-> <<"Rodrigues", solvePnP(a).rvec>>,
     translation |-> <<"div1000", solvePnP(a).tvec>>]

PoseMatrix(face_idx, garbage) == head_pose(SolverArgs(face_idx, garbage))

\* update without shapes.clear(): the new shapes are appended to the old.
ShapesAppended(old, image, fs, n) ==
    old \o [j \in 1..n |-> pose_model(image, fs[j])]

\* shapes.clear() and then one push_back per face, of which n complete.
ShapesBuilt(old, image, fs, n) == [j \in 1..n |-> pose_model(image, fs[j])]

\* The list update returns: 68 cv::Points per stored shape.
all_features(shs) ==
    [j \in 1..Len(shs) |-> [i \in 1..NumParts |-> toCv(shs[j].parts[i - 1])]]

(* ------------------------------ drawing ------------------------------- *)

\* What is drawn on an image buffer, on top of the frame's own pixels.
EmptyLayer == [features |-> <<>>, axes |-> <<>>, labels |-> <<>>]

Compose(a, b) ==
    [features |-> a.features \o b.features,
     axes |-> a.axes \o b.axes,
     labels |-> a.labels \o b.labels]

\* The caller's image.
BaseImage == [buf |-> "base"]

\* A cv::Mat copy without clone(): a second header over the same buffer.
shallowCopy(m) == m

\* cv::Mat::clone(): a header over a new buffer of its own, which the call
\* returns to the caller together with what was drawn on it.
clone(m) == [buf |-> "result"]

\* The index pairs drawFeatures joins by a line.
FeatureSegments ==
    {<<i, i - 1>> : i \in (1..16) \cup (28..30) \cup (18..21) \cup (23..26)
                          \cup (31..35) \cup (37..41) \cup (43..47)
                          \cup (49..59) \cup (61..67)}
    \cup {<<30, 35>>, <<36, 41>>, <<42, 47>>, <<48, 59>>, <<60, 67>>}

drawFeatures(detected_features) ==
    [j \in 1..Len(detected_features) |->
        {<<detected_features[j][s[1] + 1], detected_features[j][s[2] + 1]>> :
            s \in FeatureSegments}]

\* drawPose: the projected axes, and the translation label at coordsOf(SELLION).
drawPoseAxes(detected_pose) ==
    <<"projectPoints", detected_pose.rotation, detected_pose.translation, projection>>

drawPoseLabel(detected_pose, face_idx, garbage) ==
    [text |-> <<"cm", detected_pose.translation>>,
     at |-> coordsOf(face_idx, SELLION, garbage)]

Overlay(detected_features, detected_poses, garbage) ==
    [features |-> IF detected_features # <<>>
                  THEN drawFeatures(detected_features) ELSE <<>>,
     axes |-> [i \in 1..Len(detected_poses) |-> drawPoseAxes(detected_poses[i])],
     labels |-> [i \in 1..Len(detected_poses) |->
                    drawPoseLabel(detected_poses[i], i - 1, garbage)]]

(* ----------------------------- intersection --------------------------- *)

Abs(x) == IF x < 0 THEN -x ELSE x

\* 4^e.
Pow4(e) == IF e = 0 THEN 1 ELSE 268435456

\* A coordinate c of the grid with exponent e is the float c * 2^-e (exact),
\* e in {0, 14}; a cross product c of the grid is the float c * 4^-e (exact).
GridExps == {0, 14}

\* abs(cross) < 1e-8 for cross = c * 4^-e: c * 10^8 < 4^e, and for an
\* integer c that is c <= (4^e - 1) \div 10^8.
BelowEps(c, e) == Abs(c) <= (Pow4(e) - 1) \div 100000000

Grid == (-GridMax)..GridMax

GeoIdle == [called |-> FALSE, e |-> 0]

(* ------------------------------- actions ------------------------------ *)

\* The constructor: the optical center is the sentinel -1, nothing is stored.
\* pixels holds the caller's image buffers. firstSize (the size of the first
\* image updated with) and ocWrites (the number of writes of the optical
\* center) record history; no code reads them.
Constructed ==
    /\ focalLength \in FocalLengths
    /\ opticalCenterX = -1
    /\ opticalCenterY = -1
    /\ faces = <<>>
    /\ shapes = <<>>
    /\ pixels = [b \in {"base"} |-> EmptyLayer]
    /\ call = [op |-> "new"]
    /\ firstSize = <<>>
    /\ ocWrites = 0

Init == Constructed /\ geo = GeoIdle

\* update without the "not initialized yet" test: recomputed on every frame.
InitializedEveryFrame == TRUE

\* Whether update writes the optical center.
NotInitializedYet == opticalCenterX = -1

\* update(image); fail names the call that throws, if one does, and k the
\* face the predictor throws on.
Update(image, fail, k) ==
    LET detected == detector(image)
        built == IF fail = "predictor" THEN k - 1 ELSE Len(detected)
        newShapes == ShapesBuilt(shapes, image, detected, built)
    IN  /\ fail = "predictor" => k \in 1..Len(detected)
        /\ opticalCenterX' = IF NotInitializedYet THEN image.cols \div 2
                             ELSE opticalCenterX
        /\ opticalCenterY' = IF NotInitializedYet THEN image.rows \div 2
                             ELSE opticalCenterY
        /\ ocWrites' = IF NotInitializedYet THEN ocWrites + 1 ELSE ocWrites
        /\ firstSize' = IF firstSize = <<>> THEN <<image.cols, image.rows>>
                        ELSE firstSize
        /\ IF fail \in {"image", "detector"}
           THEN UNCHANGED <<faces, shapes>>
           ELSE faces' = detected /\ shapes' = newShapes
        /\ call' = IF fail = "none"
                   THEN [op |-> "update", image |-> image, status |-> "ok",
                         out |-> all_features(newShapes)]
                   ELSE [op |-> "update", image |-> image, status |-> "error",
                         thrower |-> fail]
        /\ UNCHANGED <<focalLength, pixels, geo>>

\* pose(face_idx).
Pose(face_idx, garbage, crash) ==
    LET oob == face_idx >= Len(shapes)
    IN  /\ call' = IF oob /\ crash
                   THEN [op |-> "pose", idx |-> face_idx, status |-> "crash",
                         oob |-> TRUE]
                   ELSE [op |-> "pose", idx |-> face_idx, status |-> "ok",
                         oob |-> oob,
                         solver |-> SolverArgs(face_idx, garbage),
                         out |-> PoseMatrix(face_idx, garbage)]
        /\ UNCHANGED <<estimator, pixels, firstSize, ocWrites, geo>>

\* poses(): pose(i) for every i below faces.size().
Poses(garbage, crash) ==
    LET oob == Len(faces) > Len(shapes)
    IN  /\ call' = IF oob /\ crash
                   THEN [op |-> "poses", status |-> "crash", oob |-> TRUE]
                   ELSE [op |-> "poses", status |-> "ok", oob |-> oob,
                         out |-> [i \in 1..Len(faces) |->
                                     PoseMatrix(i - 1, garbage)]]
        /\ UNCHANGED <<estimator, pixels, firstSize, ocWrites, geo>>

\* The pose lists a caller holds: those this estimator computes for a scene.
PosesOfScene(sc) ==
    [i \in 1..Len(sc) |->
        head_pose([objectPoints |-> head_points,
                   imagePoints |->
                      LET sh == pose_model([cols |-> 0, rows |-> 0, scene |-> sc], sc[i])
                          c(f) == ToPoint2f(toCv(sh.parts[f]))
                      IN  <<c(SELLION), c(RIGHT_EYE), c(LEFT_EYE), c(RIGHT_SIDE),
                            c(LEFT_SIDE), c(MENTON), c(NOSE),
                            HalfPoint2f(AddPoint2f(c(MOUTH_CENTER_TOP),
                                                   c(MOUTH_CENTER_BOTTOM)))>>,
                   cameraMatrix |-> projection,
                   distCoeffs |-> "noArray",
                   guess |-> InitialGuess,
                   useExtrinsicGuess |-> TRUE,
                   flags |-> "ITERATIVE"])]

\* The landmark lists a caller holds: those update returns for a scene.
FeaturesOfScene(sc) ==
    all_features([j \in 1..Len(sc) |->
                     pose_model([cols |-> 0, rows |-> 0, scene |-> sc], sc[j])])

\* drawDetections(original_image, detected_features, detected_poses).
DrawDetections(original_image, detected_features, detected_poses, garbage, crash) ==
    LET oob == Len(detected_poses) > Len(shapes)
        result == clone(original_image)
        drawn == Compose(pixels[original_image.buf],
                         Overlay(detected_features, detected_poses, garbage))
    IN  /\ IF oob /\ crash
           THEN /\ call' = [op |-> "draw", base |-> original_image,
                            features |-> detected_features,
                            poses |-> detected_poses,
                            status |-> "crash", oob |-> TRUE]
                /\ UNCHANGED pixels
           ELSE /\ call' = [op |-> "draw", base |-> original_image,
                            features |-> detected_features,
                            poses |-> detected_poses,
                            status |-> "ok", oob |-> oob,
                            out |-> [buf |-> result.buf, data |-> drawn]]
                /\ pixels' = IF result.buf \in DOMAIN pixels
                             THEN [pixels EXCEPT ![result.buf] = drawn]
                             ELSE pixels
        /\ UNCHANGED <<estimator, firstSize, ocWrites, geo>>

\* What can throw in update(image): nothing, the cv_image constructor (pixel
\* format), the detector, or the predictor on the k-th face.
FailPoints(image) ==
    {<<"none", 0>>, <<"image", 0>>, <<"detector", 0>>}
    \cup {<<"predictor", k>> : k \in 1..Len(detector(image))}

\* The outcomes of a call that reads shapes[0..n-1]: defined when all exist;
\* otherwise a crash, or a run over any of the garbage shapes.
Outcomes(n) ==
    IF n <= Len(shapes)
    THEN {[garbage |-> CHOOSE g \in GarbageShapes : TRUE, crash |-> FALSE]}
    ELSE [garbage : GarbageShapes, crash : BOOLEAN]

\* The lists a caller passes to drawDetections: the poses of a frame, with the
\* landmark sets of that frame or with none.
DrawArguments ==
    UNION {{[features |-> f, poses |-> PosesOfScene(sc)] :
                f \in {FeaturesOfScene(sc), <<>>}} : sc \in Scenes}

Next ==
    \/ \E image \in Images : \E fail \in FailPoints(image) :
          Update(image, fail[1], fail[2])
    \/ \E face_idx \in 0..MaxFaces : \E o \in Outcomes(face_idx + 1) :
          Pose(face_idx, o.garbage, o.crash)
    \/ \E o \in Outcomes(Len(faces)) : Poses(o.garbage, o.crash)
    \/ \E a \in DrawArguments : \E o \in Outcomes(Len(a.poses)) :
          DrawDetections(BaseImage, a.features, a.poses, o.garbage, o.crash)

Spec == Init /\ [][Next]_vars

(* -------------------- intersection as a specification ----------------- *)

\* The points of the grid; r is held as <<x numerator, y numerator, denominator>>.
GridPoints == Grid \X Grid

GeoInputs ==
    [called : {FALSE}, e : GridExps, o1 : GridPoints, p1 : GridPoints,
     o2 : GridPoints, p2 : GridPoints, r : {<<7, 7, 1>>}]

\* intersection(o1, p1, o2, p2, r): the returned flag and r after the call.
\* t1 = num / cross and r = o1 + d1 * t1 are kept as exact fractions; the code
\* rounds both to float.
intersection(e, o1, p1, o2, p2, r) ==
    LET x == <<o2[1] - o1[1], o2[2] - o1[2]>>
        d1 == <<p1[1] - o1[1], p1[2] - o1[2]>>
        d2 == <<p2[1] - o2[1], p2[2] - o2[2]>>
        cross == d1[1] * d2[2] - d1[2] * d2[1]
        num == x[1] * d2[2] - x[2] * d2[1]
    IN  IF BelowEps(cross, e)
        THEN [ret |-> FALSE, r |-> r]
        ELSE [ret |-> TRUE,
              r |-> <<o1[1] * cross + d1[1] * num,
                      o1[2] * cross + d1[2] * num, cross>>]

Intersection ==
    /\ "o1" \in DOMAIN geo
    /\ ~geo.called
    /\ LET res == intersection(geo.e, geo.o1, geo.p1, geo.o2, geo.p2, geo.r)
       IN  geo' = [called |-> TRUE, e |-> geo.e, o1 |-> geo.o1, p1 |-> geo.p1,
                   o2 |-> geo.o2, p2 |-> geo.p2, r0 |-> geo.r,
                   ret |-> res.ret, r |-> res.r]
    /\ UNCHANGED <<estimator, pixels, call, firstSize, ocWrites>>

InitGeo == Constructed /\ geo \in GeoInputs

NextGeo == Intersection

SpecGeo == InitGeo /\ [][NextGeo]_vars

(* -------------------------------- claims ------------------------------ *)

\* C1: the first update call sets the optical center to (cols/2, rows/2) (the
\* integer division of the code) of its image; every later update, with an
\* image of any size, leaves it unchanged; the optical center is written at
\* most once.
C1_OpticalCenterSetOnce ==
    /\ ocWrites <= 1
    /\ firstSize = <<>> =>
          opticalCenterX = -1 /\ opticalCenterY = -1 /\ ocWrites = 0
    /\ firstSize # <<>> =>
          /\ opticalCenterX = firstSize[1] \div 2
          /\ opticalCenterY = firstSize[2] \div 2
          /\ ocWrites = 1

\* A later update, with an image of another size than the first.
C1_Witness ==
    /\ call.op = "update"
    /\ firstSize # <<>>
    /\ firstSize # <<call.image.cols, call.image.rows>>
    /\ opticalCenterX = firstSize[1] \div 2

\* C2: pose(face_idx) with face_idx not below the number of stored faces
\* signals an index error and reads no landmark storage out of bounds.
C2_OutOfRangeSignalsIndexError ==
    (call.op = "pose" /\ call.idx >= Len(faces)) =>
        (call.status = "index_error" /\ ~call.oob)

\* C3: after an update call that returns, the stored faces and shapes are those
\* of the image just processed, in the detector's order, and the returned list
\* holds the 68 points of each; nothing of an earlier update survives.
C3_UpdateReplacesState ==
    (call.op = "update" /\ call.status = "ok") =>
        LET sc == call.image.scene
        IN  /\ faces = sc
            /\ Len(shapes) = Len(sc)
            /\ \A j \in 1..Len(sc) :
                  /\ shapes[j].rect = sc[j]
                  /\ shapes[j] = pose_model(call.image, sc[j])
            /\ Len(call.out) = Len(sc)
            /\ \A j \in 1..Len(sc) :
                  /\ Len(call.out[j]) = 68
                  /\ \A i \in 1..68 : call.out[j][i] = shapes[j].parts[i - 1]

\* An update that is not the first and found one face.
C3_Witness ==
    /\ call.op = "update"
    /\ call.status = "ok"
    /\ firstSize # <<call.image.cols, call.image.rows>>
    /\ Len(faces) = 1
    /\ Len(call.out) = 1

\* C4: poses() returns a list as long as the stored faces whose i-th element
\* is pose(i); after an update that found no face it is empty.
C4_PosesIsPoseOfEveryFace ==
    call.op = "poses" =>
        /\ call.status = "ok"
        /\ ~call.oob
        /\ Len(call.out) = Len(faces)
        /\ \A i \in 1..Len(faces) : call.out[i] = PoseMatrix(i - 1, shapes[i])

\* C5: pose(i) of a stored face leaves the estimator unchanged, starts the
\* solve from the fixed guess (translation (0,0,1000), rotation (1.2,1.2,-1.2))
\* and returns what the pose(i) call just before it returned.
C5_PoseDeterministic ==
    [][(call'.op = "pose" /\ call'.status = "ok" /\ ~call'.oob) =>
          /\ estimator' = estimator
          /\ call'.solver.guess =
                [tvec |-> <<0, 0, 1000>>, rvec10 |-> <<12, 12, -12>>]
          /\ call'.solver.useExtrinsicGuess
          /\ (call.op = "pose" /\ call.status = "ok" /\ call.idx = call'.idx)
                => call'.out = call.out]_vars

\* pose(1) was computed for the second of two stored faces.
C5_Witness ==
    /\ call.op = "pose"
    /\ call.status = "ok"
    /\ ~call.oob
    /\ call.idx = 1
    /\ Len(shapes) = 2

\* C6: drawDetections leaves the pixels of the base image and the estimator
\* as they were, and what it returns is a buffer other than the base image's.
C6_DrawDoesNotMutateInputs ==
    [][call'.op = "draw" =>
          /\ pixels'[call'.base.buf] = pixels[call'.base.buf]
          /\ estimator' = estimator
          /\ call'.status = "ok" => call'.out.buf # call'.base.buf]_vars

\* A call that drew features, axes and a label, on a copy.
C6_Witness ==
    /\ call.op = "draw"
    /\ call.status = "ok"
    /\ Len(call.out.data.features) > 0
    /\ Len(call.out.data.labels) > 0
    /\ pixels[call.base.buf] = EmptyLayer

\* C7: a drawDetections call whose poses and landmark sets match by index is
\* well-defined whatever the estimator stores, and places the label of pose i
\* at the sellion of landmark set i of its argument.
C7_LabelAtArgumentSellion ==
    (call.op = "draw" /\ Len(call.poses) = Len(call.features)) =>
        /\ call.status = "ok"
        /\ ~call.oob
        /\ \A i \in 1..Len(call.poses) :
              call.out.data.labels[i].at =
                  <<2 * call.features[i][SELLION + 1][1],
                    2 * call.features[i][SELLION + 1][2]>>

\* C8: for two lines (o1 # p1, o2 # p2) that are not parallel, intersection
\* returns true and r lies on both lines; for two parallel lines it returns
\* false and leaves r unchanged.
C8_IntersectionIffNotParallel ==
    geo.called =>
        LET d1 == <<geo.p1[1] - geo.o1[1], geo.p1[2] - geo.o1[2]>>
            d2 == <<geo.p2[1] - geo.o2[1], geo.p2[2] - geo.o2[2]>>
            OnLine(o, d) ==
                (geo.r[1] - o[1] * geo.r[3]) * d[2]
                    = (geo.r[2] - o[2] * geo.r[3]) * d[1]
        IN  (d1 # <<0, 0>> /\ d2 # <<0, 0>>) =>
                IF d1[1] * d2[2] # d1[2] * d2[1]
                THEN geo.ret /\ OnLine(geo.o1, d1) /\ OnLine(geo.o2, d2)
                ELSE ~geo.ret /\ geo.r = geo.r0

\* C9: pose(i) hands the solver the 8 reference points and the 8 landmarks of
\* face i in the same order; the eighth 2-D point is the exact midpoint of
\* MOUTH_CENTER_TOP and MOUTH_CENTER_BOTTOM (in half pixels: their sum).
C9_Correspondences ==
    (call.op = "pose" /\ call.status = "ok" /\ ~call.oob) =>
        LET p == shapes[call.idx + 1].parts
            at(f) == <<2 * p[f][1], 2 * p[f][2]>>
            img == call.solver.imagePoints
        IN  /\ call.solver.objectPoints =
                  <<"P3D_SELLION", "P3D_RIGHT_EYE", "P3D_LEFT_EYE",
                    "P3D_RIGHT_EAR", "P3D_LEFT_EAR", "P3D_MENTON", "P3D_NOSE",
                    "P3D_STOMMION">>
            /\ Len(img) = 8
            /\ img[1] = at(SELLION)
            /\ img[2] = at(RIGHT_EYE)
            /\ img[3] = at(LEFT_EYE)
            /\ img[4] = at(RIGHT_SIDE)
            /\ img[5] = at(LEFT_SIDE)
            /\ img[6] = at(MENTON)
            /\ img[7] = at(NOSE)
            /\ img[8] = <<p[MOUTH_CENTER_TOP][1] + p[MOUTH_CENTER_BOTTOM][1],
                          p[MOUTH_CENTER_TOP][2] + p[MOUTH_CENTER_BOTTOM][2]>>

\* pose(1) of the second of two faces, whose mouth midpoint has half pixels.
C9_Witness ==
    /\ call.op = "pose"
    /\ call.status = "ok"
    /\ ~call.oob
    /\ call.idx = 1
    /\ Len(shapes) = 2
    /\ call.solver.imagePoints[8][1] % 2 = 1
    /\ call.solver.imagePoints[8][2] % 2 = 1

\* C10: in every reachable state there are as many stored landmark sets as
\* stored faces, and poses() reads no landmark set that does not exist.
C10_ShapesMatchFaces ==
    /\ Len(shapes) = Len(faces)
    /\ call.op = "poses" => ~call.oob

====
